---- MODULE Spec2Model ----
(***************************************************************************)
(* Model of the Digital Twin backend (backend/main.py): the scenario       *)
(* impact calculator `simulate`, the overlay router `compute_od_time`,     *)
(* the rainfall alert generator `generate_alert_from_rainfall`, the        *)
(* forecast summation `get_forecast_rainfall` and the `flood_forecast`     *)
(* endpoint.                                                               *)
(*                                                                         *)
(* Conventions.                                                            *)
(*  - None is modelled by -1 where a number or a node is optional; the     *)
(*    network and the dataset carry a `loaded` flag instead.               *)
(*  - Lengths are in half kilometres (LenScale units per km), so every     *)
(*    modelled length is an exact binary floating-point number.            *)
(*  - Python floats whose value is truncated or rounded to an integer by   *)
(*    the code (int(), round()) are modelled as IEEE-754 binary64 values,  *)
(*    [m |-> 53 mantissa bits, most significant first, e |-> exponent],    *)
(*    value = m * 2^e, with round-to-nearest-even after every operation.   *)
(*  - Travel times are exact integers in seconds and minutes are counted   *)
(*    in units of 1/MinScale minute; the inputs are chosen so that these   *)
(*    quantities are exact.                                                *)
(***************************************************************************)
EXTENDS Integers, Sequences, FiniteSets, TLC

None == 0 - 1

\* ---------------------------------------------------------------------
\* Bounds of the model
\* ---------------------------------------------------------------------
\* Road nodes are 1..MaxNode; coordinates are the positions 0..MaxPos on a
\* line, one kilometre apart; node n sits at position n - 1.
MaxNode == 3
MaxPos == 2
MaxLanes == 2
\* Number of hotspots of the dataset used by the scenario requests.
SimHotspots == 4
\* Forecast feed: number of samples, latest timestamp, largest horizon asked.
MaxFeed == 3
MaxTime == 2
MaxHours == 3
\* Concurrent requests.
MaxThreads == 2

\* ---------------------------------------------------------------------
\* IEEE-754 binary64 arithmetic (Python float)
\* ---------------------------------------------------------------------
MantBits == 53
\* Working digits ("limbs") of the multi-precision integers.
LimbBits == 11
LimbBase == 2 ^ LimbBits
FracLimbs == 7
IntBits == 31

FZero == [m |-> <<>>, e |-> 0]

Min2(a, b) == IF a <= b THEN a ELSE b
Max2(a, b) == IF a >= b THEN a ELSE b

\* The w-bit binary representation of n, most significant bit first.
BitsOfNat(n, w) == [i \in 1..w |-> (n \div (2 ^ (w - i))) % 2]

RECURSIVE BitsNat(_)
BitsNat(bits) ==
  IF bits = <<>> THEN 0
  ELSE 2 * BitsNat(SubSeq(bits, 1, Len(bits) - 1)) + bits[Len(bits)]

Zeros(n) == [i \in 1..n |-> 0]

\* Drop the leading zero bits.
Strip(bits) ==
  IF \A i \in 1..Len(bits) : bits[i] = 0 THEN <<>>
  ELSE LET f == CHOOSE i \in 1..Len(bits) :
                   bits[i] = 1 /\ \A j \in 1..(i - 1) : bits[j] = 0
       IN SubSeq(bits, f, Len(bits))

LimbsToBits(limbs) ==
  [i \in 1..(Len(limbs) * LimbBits) |->
     (limbs[((i - 1) \div LimbBits) + 1]
        \div (2 ^ (LimbBits - 1 - ((i - 1) % LimbBits)))) % 2]

BitsToLimbs(bits) ==
  LET n   == (Len(bits) + LimbBits - 1) \div LimbBits
      pad == Zeros(n * LimbBits - Len(bits)) \o bits
  IN [k \in 1..n |->
        BitsNat(SubSeq(pad, LimbBits * (k - 1) + 1, LimbBits * k))]

\* bits + 1 (one bit longer when bits is all ones).
Inc(bits) ==
  IF \A i \in 1..Len(bits) : bits[i] = 1 THEN <<1>> \o Zeros(Len(bits))
  ELSE LET p == CHOOSE i \in 1..Len(bits) :
                   bits[i] = 0 /\ \A j \in (i + 1)..Len(bits) : bits[j] = 1
       IN [i \in 1..Len(bits) |->
             IF i < p THEN bits[i] ELSE IF i = p THEN 1 ELSE 0]

\* Round the integer `bits` (no leading zero), scaled by 2^e, with `sticky`
\* telling whether non-zero bits were already dropped below it, to 53 bits:
\* round to nearest, ties to even.
Round53(bits, sticky, e) ==
  LET n == Len(bits) IN
  IF n <= MantBits
  THEN [m |-> bits \o Zeros(MantBits - n), e |-> e - (MantBits - n)]
  ELSE LET keep  == SubSeq(bits, 1, MantBits)
           guard == bits[MantBits + 1]
           st    == sticky \/ \E i \in (MantBits + 2)..n : bits[i] = 1
           up    == guard = 1 /\ (st \/ keep[MantBits] = 1)
           r     == IF up THEN Inc(keep) ELSE keep
       IN IF Len(r) > MantBits
          THEN [m |-> SubSeq(r, 1, MantBits), e |-> e + (n - MantBits) + 1]
          ELSE [m |-> r, e |-> e + (n - MantBits)]

\* Long division: the first i limbs of the fraction r / d (r < d).
RECURSIVE DivLimbs(_, _, _)
DivLimbs(r, d, i) ==
  IF i = 0 THEN <<>>
  ELSE <<(r * LimbBase) \div d>> \o DivLimbs((r * LimbBase) % d, d, i - 1)

\* The remainder left after those i limbs.
RECURSIVE DivRem(_, _, _)
DivRem(r, d, i) ==
  IF i = 0 THEN r ELSE DivRem((r * LimbBase) % d, d, i - 1)

\* The float n / d of two non-negative integers (d > 0); also the value of a
\* decimal literal such as 0.7 = FDiv(7, 10).
FDiv(n, d) ==
  IF n = 0 THEN FZero
  ELSE Round53(Strip(BitsOfNat(n \div d, IntBits)
                       \o LimbsToBits(DivLimbs(n % d, d, FracLimbs))),
               DivRem(n % d, d, FracLimbs) # 0,
               0 - FracLimbs * LimbBits)

RECURSIVE MulCarry(_, _, _, _)
MulCarry(limbs, i, k, carry) ==
  IF i = 0 THEN <<carry \div LimbBase, carry % LimbBase>>
  ELSE Append(MulCarry(limbs, i - 1, k, (limbs[i] * k + carry) \div LimbBase),
              (limbs[i] * k + carry) % LimbBase)

\* The float product x * k of a float x >= 0 and a non-negative integer k
\* (k < 2^19, itself an exact float).
FMulInt(x, k) ==
  IF x.m = <<>> \/ k = 0 THEN FZero
  ELSE LET limbs == BitsToLimbs(x.m)
       IN Round53(Strip(LimbsToBits(MulCarry(limbs, Len(limbs), k, 0))),
                  FALSE, x.e)

\* x / 2^s: exact.
FScale(x, s) == IF x.m = <<>> THEN x ELSE [m |-> x.m, e |-> x.e - s]

FLess(x, y) ==
  IF y.m = <<>> THEN FALSE
  ELSE IF x.m = <<>> THEN TRUE
  ELSE IF x.e # y.e THEN x.e < y.e
  ELSE \E i \in 1..MantBits :
          /\ x.m[i] < y.m[i]
          /\ \A j \in 1..(i - 1) : x.m[j] = y.m[j]

\* Python max(x, y): the first argument unless the second is greater.
FMax(x, y) == IF FLess(x, y) THEN y ELSE x

\* Python int(x) for a float x >= 0 below 2^31: truncation.
FTrunc(x) ==
  IF x.m = <<>> \/ MantBits + x.e <= 0 THEN 0
  ELSE BitsNat(SubSeq(x.m, 1, MantBits + x.e))

\* Python round(x) for a float x >= 0: nearest integer, ties to even, taken
\* on the exact value of the float.
FRound(x) ==
  LET n == MantBits + x.e IN
  IF x.m = <<>> \/ n < 0 THEN 0
  ELSE LET ip    == BitsNat(SubSeq(x.m, 1, n))
           guard == x.m[n + 1]
           rest  == \E i \in (n + 2)..MantBits : x.m[i] = 1
       IN IF guard = 0 THEN ip
          ELSE IF rest THEN ip + 1
          ELSE IF ip % 2 = 0 THEN ip ELSE ip + 1

\* ---------------------------------------------------------------------
\* State
\* ---------------------------------------------------------------------
VARIABLES
  road_graph,     \* the process-wide road network (loaded flag, nodes, edges)
  flood_points,   \* the process-wide hotspot dataset (loaded flag, rows)
  resolver_ok,    \* whether ox.distance.nearest_nodes works in this process
  graph0,         \* the road network as loaded at start-up
  points0,        \* the hotspot dataset as loaded at start-up
  sim,            \* the last /api/disaster/simulate request and its response
  od,             \* the last pair of compute_od_time calls
  alert,          \* the last generate_alert_from_rainfall call
  feed,           \* the Open-Meteo hourly feed: [times, rains, now]
  fc,             \* the last get_forecast_rainfall / flood_forecast call
  pc, treq, tG, tbase, tscen, tresp   \* concurrent request handlers

vars == <<road_graph, flood_points, resolver_ok, graph0, points0, sim, od,
          alert, feed, fc, pc, treq, tG, tbase, tscen, tresp>>

envVars == <<road_graph, flood_points, resolver_ok, graph0, points0>>
thrVars == <<pc, treq, tG, tbase, tscen, tresp>>

\* ---------------------------------------------------------------------
\* Geodesy
\* ---------------------------------------------------------------------
Pos == 0..MaxPos
\* Length units per kilometre.
LenScale == 2
Abs(a) == IF a < 0 THEN 0 - a ELSE a

\* Great-circle distance of two positions of the line, in length units.
distance_km(a, b) == LenScale * Abs(b - a)

RECURSIVE SumDist(_, _)
SumDist(points, i) ==
  IF i > Len(points) THEN 0
  ELSE distance_km(points[i - 1], points[i]) + SumDist(points, i + 1)

compute_length_from_points(points) ==
  IF Len(points) < 2 THEN 0 ELSE SumDist(points, 2)

\* ---------------------------------------------------------------------
\* Road network and overlay router
\* ---------------------------------------------------------------------
Nodes == 1..MaxNode
NodePos(n) == n - 1
Unreachable == 1000000

\* bool(road_graph): a networkx graph is true when it has nodes.
GraphTruthy(rg) == rg.loaded /\ rg.nodes # {}

nearest_node(rg, rok, p) ==
  IF ~rg.loaded THEN None
  ELSE IF ~rok \/ rg.nodes = {} THEN None
  ELSE CHOOSE n \in rg.nodes :
         \A k \in rg.nodes :
            \/ Abs(NodePos(n) - p) < Abs(NodePos(k) - p)
            \/ (Abs(NodePos(n) - p) = Abs(NodePos(k) - p) /\ n <= k)

\* t = (length_km / speed) * 3600.0, in seconds.
OverlayTime(length_km, speed) == (length_km * 3600) \div (LenScale * speed)

\* DiGraph.add_edge: the new edge replaces the edge from u to v.
AddEdgeReplace(G, u, v, t) ==
  [G EXCEPT !.nodes = @ \cup {u, v},
            !.edges = {e \in @ : ~(e[1] = u /\ e[2] = v)} \cup {<<u, v, t>>}]

\* MultiDiGraph.add_edge: a new parallel edge, existing edges are kept.
AddEdge(G, u, v, t) ==
  [G EXCEPT !.nodes = @ \cup {u, v}, !.edges = @ \cup {<<u, v, t>>}]

RECURSIVE AddOverlay(_, _)
AddOverlay(G, temp_edges) ==
  IF temp_edges = <<>> THEN G
  ELSE LET o == Head(temp_edges)
           t == OverlayTime(o[3], o[4])
       IN AddOverlay(AddEdge(AddEdge(G, o[1], o[2], t), o[2], o[1], t),
                     Tail(temp_edges))

SetMin(S) == CHOOSE m \in S : \A k \in S : m <= k

\* One round of relaxation of the distances from the source.
Relax(G, dist) ==
  [n \in G.nodes |->
     SetMin({dist[n]} \cup
            {dist[e[1]] + e[3] : e \in {d \in G.edges :
                                   d[2] = n /\ dist[d[1]] < Unreachable}})]

RECURSIVE RelaxN(_, _, _)
RelaxN(G, dist, k) == IF k = 0 THEN dist ELSE RelaxN(G, Relax(G, dist), k - 1)

\* nx.shortest_path + nx.path_weight on travel_time; None when no route.
ShortestTime(G, u, v) ==
  LET d0 == [n \in G.nodes |-> IF n = u THEN 0 ELSE Unreachable]
      d  == RelaxN(G, d0, Cardinality(G.nodes))
  IN IF d[v] >= Unreachable THEN None ELSE d[v]

\* road_graph.copy()
GraphCopy(rg) == [loaded |-> rg.loaded, nodes |-> rg.nodes, edges |-> rg.edges]

\* Lines 178-187 of compute_od_time: resolve the end points on the shared
\* network and route on the private graph G.
RouteOn(G, rg, rok, origin, dest) ==
  LET u == nearest_node(rg, rok, origin)
      v == nearest_node(rg, rok, dest)
  IN IF u = None \/ v = None THEN None ELSE ShortestTime(G, u, v)

compute_od_time(rg, rok, origin, dest, temp_edges) ==
  IF ~rg.loaded THEN None
  ELSE RouteOn(AddOverlay(GraphCopy(rg), temp_edges), rg, rok, origin, dest)

\* ---------------------------------------------------------------------
\* Hotspot dataset
\* ---------------------------------------------------------------------
\* Hotspot i of a generated dataset: on the line (off = 0) or one kilometre
\* beside it (off = 1).
Hotspot(i) ==
  [id |-> i, pos |-> (i - 1) % (MaxPos + 1),
   off |-> ((i - 1) \div (MaxPos + 1)) % 2]

MakePoints(n) == [loaded |-> TRUE, rows |-> [i \in 1..n |-> Hotspot(i)]]
NoPoints == [loaded |-> FALSE, rows |-> <<>>]

\* flood_points.within(100 m buffer of the path): on one of its segments.
WithinBuffer(h, path) ==
  /\ h.off = 0
  /\ \E i \in 1..Len(path) :
        LET j == IF i < Len(path) THEN i + 1 ELSE i
        IN Min2(path[i], path[j]) <= h.pos /\ h.pos <= Max2(path[i], path[j])

BufferCount(fp, path) ==
  Cardinality({i \in 1..Len(fp) : WithinBuffer(fp[i], path)})

\* ---------------------------------------------------------------------
\* Scenario impact calculator
\* ---------------------------------------------------------------------
InterventionTypes == {"road", "drain", "green", "restriction"}
\* Minute units per minute.
MinScale == 60
OverlaySpeed == 60
baseline_cells == 1000
baseline_pop == 500000

\* req.origin and req.destination
HasOD(req) == req.origin # None /\ req.destination # None

\* req.approxLength or compute_length_from_points(req.roadPoints)
LengthOf(req) ==
  IF req.approxLength # None /\ req.approxLength # 0 THEN req.approxLength
  ELSE compute_length_from_points(req.roadPoints)

\* req.lanes or 1
LanesOf(req) == IF req.lanes # None /\ req.lanes # 0 THEN req.lanes ELSE 1

\* seconds / 60.0, in minute units
MinutesOfSec(s) == (s * MinScale) \div 60

\* HeuristicMinutes without the restriction case.
HeuristicMinutesSigned(req) ==
  0 - Min2(20 * MinScale,
           (LengthOf(req) * LanesOf(req) * 6 * MinScale) \div (10 * LenScale))

\* -min(20.0, length_km * lanes * 0.6); abs(.) / 2.0 for a restriction
HeuristicMinutes(req) ==
  LET m == 0 - Min2(20 * MinScale,
                    (LengthOf(req) * LanesOf(req) * 6 * MinScale)
                       \div (10 * LenScale))
  IN IF req.interventionType = "restriction" THEN Abs(m) \div 2 ELSE m

Traffic(req, base_sec, scen_sec) ==
  IF req.origin # None /\ req.destination # None
  THEN IF base_sec # None /\ scen_sec # None
       THEN [minutesChange |-> MinutesOfSec(scen_sec) - MinutesOfSec(base_sec),
             baselineMinutes |-> MinutesOfSec(base_sec),
             scenarioMinutes |-> MinutesOfSec(scen_sec)]
       ELSE [minutesChange |-> HeuristicMinutes(req),
             baselineMinutes |-> None, scenarioMinutes |-> None]
  ELSE [minutesChange |-> 0, baselineMinutes |-> None,
        scenarioMinutes |-> None]

SpatialDelta(type, affected_count) ==
  IF type = "road" THEN affected_count
  ELSE IF type = "drain" THEN 0 - 2 * affected_count
  ELSE IF type = "green" THEN 0 - affected_count
  ELSE 0 - 2 * affected_count

\* rf = max(0.01, req.rainfall / 100.0)
RainFactor(rainfall) == FMax(FDiv(1, 100), FDiv(rainfall, 100))

\* round(length_km * rf * k)
RoundedProduct(length_km, rainfall, k) ==
  FRound(FMulInt(FScale(FMulInt(RainFactor(rainfall), length_km), 1), k))

\* FallbackDelta with the factor of the restriction used for the drain.
FallbackDeltaDrain12(type, length_km, rainfall) ==
  IF type = "road" THEN RoundedProduct(length_km, rainfall, 10)
  ELSE IF type = "green" THEN 0 - RoundedProduct(length_km, rainfall, 8)
  ELSE 0 - RoundedProduct(length_km, rainfall, 12)

FallbackDelta(type, length_km, rainfall) ==
  IF type = "road" THEN RoundedProduct(length_km, rainfall, 10)
  ELSE IF type = "drain" THEN 0 - RoundedProduct(length_km, rainfall, 15)
  ELSE IF type = "green" THEN 0 - RoundedProduct(length_km, rainfall, 8)
  ELSE 0 - RoundedProduct(length_km, rainfall, 12)

\* int(baseline_pop * (scenario_cells / baseline_cells))
ScenarioPop(scenario_cells) ==
  FTrunc(FMulInt(FDiv(scenario_cells, baseline_cells), baseline_pop))

\* LineString(...) raises for a single coordinate.
LineStringFails(path) == Len(path) = 1

\* The rest of the handler once the two routing results are known.
SimFinish(req, fp, base_sec, scen_sec) ==
  LET tr      == Traffic(req, base_sec, scen_sec)
      spatial == fp.loaded /\ req.roadPoints # <<>>
      delta   == IF spatial
                 THEN SpatialDelta(req.interventionType,
                                   BufferCount(fp.rows, req.roadPoints))
                 ELSE FallbackDelta(req.interventionType, LengthOf(req),
                                    req.rainfall)
      cells   == Max2(0, baseline_cells + delta)
  IN IF spatial /\ LineStringFails(req.roadPoints)
     THEN [status |-> "error", traffic |-> tr, delta_cells |-> 0]
     ELSE [status |-> "ok", traffic |-> tr, delta_cells |-> delta,
           flood |-> [baselineHighRiskCells |-> baseline_cells,
                      scenarioHighRiskCells |-> cells,
                      baselinePop |-> baseline_pop,
                      scenarioPop |-> ScenarioPop(cells)]]

\* The overlay of the request: one edge between the nearest nodes of the
\* first and the last point of the path, or none.
OverlayOf(req, rg, rok) ==
  IF req.roadPoints # <<>> /\ GraphTruthy(rg)
  THEN LET u == nearest_node(rg, rok, req.roadPoints[1])
           v == nearest_node(rg, rok, req.roadPoints[Len(req.roadPoints)])
       IN IF u # None /\ v # None
          THEN <<<<u, v, LengthOf(req), OverlaySpeed>>>>
          ELSE <<>>
  ELSE <<>>

simulate(req, rg, fp, rok) ==
  LET hasOD    == req.origin # None /\ req.destination # None
      base_sec == IF hasOD
                  THEN compute_od_time(rg, rok, req.origin, req.destination,
                                       <<>>)
                  ELSE None
      ov       == OverlayOf(req, rg, rok)
      scen_sec == IF hasOD /\ ov # <<>>
                  THEN compute_od_time(rg, rok, req.origin, req.destination,
                                       ov)
                  ELSE base_sec
  IN SimFinish(req, fp, base_sec, scen_sec)

\* ---------------------------------------------------------------------
\* Rainfall alert generator
\* ---------------------------------------------------------------------
\* Rainfall units per millimetre.
RainScale == 100

\* classify_severity with the boundary values in the lower tier.
classify_severity_inclusive(rainfall_mm) ==
  IF rainfall_mm <= 10 * RainScale THEN "low"
  ELSE IF rainfall_mm <= 25 * RainScale THEN "moderate"
  ELSE IF rainfall_mm <= 50 * RainScale THEN "high"
  ELSE "critical"

classify_severity(rainfall_mm) ==
  IF rainfall_mm < 10 * RainScale THEN "low"
  ELSE IF rainfall_mm < 25 * RainScale THEN "moderate"
  ELSE IF rainfall_mm < 50 * RainScale THEN "high"
  ELSE "critical"

messages ==
  [low |-> "Low flood risk.",
   moderate |-> "Moderate risk - localized hotspots possible.",
   high |-> "High risk - many hotspots likely to be affected.",
   critical |-> "Critical risk - widespread inundation possible."]

actions ==
  [low |-> <<"Monitor rainfall trends">>,
   moderate |-> <<"Prepare pumps and alert local teams">>,
   high |-> <<"Issue city-wide advisories", "Mobilize maintenance teams">>,
   critical |-> <<"Activate emergency operations", "Prepare evacuations">>]

\* The literal frac as the pair <<numerator, denominator>> of its decimal.
ActivationFraction(rainfall_mm) ==
  IF rainfall_mm < 10 * RainScale THEN <<5, 100>>
  ELSE IF rainfall_mm < 25 * RainScale THEN <<15, 100>>
  ELSE IF rainfall_mm < 50 * RainScale THEN <<40, 100>>
  ELSE IF rainfall_mm < 100 * RainScale THEN <<70, 100>>
  ELSE <<1, 1>>

\* max(1, int(total * frac))
AffectedCount(total, frac) ==
  Max2(1, FTrunc(FMulInt(FDiv(frac[1], frac[2]), total)))

\* flood_points.cx[minx:maxx, miny:maxy] with bbox = <<minx, miny, maxx, maxy>>
InBBox(h, bbox) ==
  /\ bbox[1] <= h.pos /\ h.pos <= bbox[3]
  /\ bbox[2] <= h.off /\ h.off <= bbox[4]

FilterSeq(s, bbox) == SelectSeq(s, LAMBDA h : InBBox(h, bbox))

OutPoint(h) == [lat |-> h.off, lng |-> h.pos, properties |-> [id |-> h.id]]

generate_alert_from_rainfall(fp, rainfall_mm, bbox) ==
  IF ~fp.loaded THEN [status |-> "error"]
  ELSE
    LET pts   == IF bbox # <<>> /\ Len(bbox) = 4
                 THEN FilterSeq(fp.rows, bbox)
                 ELSE fp.rows
        total == Len(pts)
    IN IF total = 0
       THEN [status |-> "ok", severity |-> "low", affected_count |-> 0,
             affected_points |-> <<>>,
             message |-> "No known hotspots for selected area.",
             recommended_actions |-> <<"Monitor rainfall">>,
             rainfall_mm |-> rainfall_mm]
       ELSE LET affected_count ==
                  AffectedCount(total, ActivationFraction(rainfall_mm))
                severity == classify_severity(rainfall_mm)
            IN [status |-> "ok", severity |-> severity,
                affected_count |-> affected_count,
                affected_points |->
                  [i \in 1..Min2(affected_count, total) |-> OutPoint(pts[i])],
                message |-> messages[severity],
                recommended_actions |-> actions[severity],
                rainfall_mm |-> rainfall_mm]

\* ---------------------------------------------------------------------
\* Forecast
\* ---------------------------------------------------------------------
\* A timestamp datetime.fromisoformat rejects.
BadTime == 0 - 2
horizons == [day1 |-> 24, day2 |-> 48, day3 |-> 72]

\* ForecastLoop with the samples before now counted towards the horizon.
RECURSIVE ForecastLoopCountAll(_, _, _, _, _, _, _)
ForecastLoopCountAll(times, rains, i, now, hours, total, count) ==
  IF i > Min2(Len(times), Len(rains)) THEN total
  ELSE IF times[i] = BadTime
       THEN ForecastLoopCountAll(times, rains, i + 1, now, hours, total, count)
  ELSE IF times[i] >= now /\ count < hours
       THEN ForecastLoopCountAll(times, rains, i + 1, now, hours,
                         total + (IF rains[i] = None THEN 0 ELSE rains[i]),
                         count + 1)
  ELSE ForecastLoopCountAll(times, rains, i + 1, now, hours, total, count + 1)

\* The loop over zip(times, rains).
RECURSIVE ForecastLoop(_, _, _, _, _, _, _)
ForecastLoop(times, rains, i, now, hours, total, count) ==
  IF i > Min2(Len(times), Len(rains)) THEN total
  ELSE IF times[i] = BadTime
       THEN ForecastLoop(times, rains, i + 1, now, hours, total, count)
  ELSE IF times[i] >= now /\ count < hours
       THEN ForecastLoop(times, rains, i + 1, now, hours,
                         total + (IF rains[i] = None THEN 0 ELSE rains[i]),
                         count + 1)
  ELSE ForecastLoop(times, rains, i + 1, now, hours, total, count)

get_forecast_rainfall(f, hours) ==
  IF f.times = <<>> \/ f.rains = <<>> THEN 0
  ELSE ForecastLoop(f.times, f.rains, 1, f.now, hours, 0, 0)

flood_forecast(fp, f) ==
  IF ~f.http_ok \/ ~fp.loaded THEN [status |-> 500]
  ELSE [status |-> 200,
        out |-> [key \in DOMAIN horizons |->
                   generate_alert_from_rainfall(
                     fp, get_forecast_rainfall(f, horizons[key]), <<>>)]]

\* ---------------------------------------------------------------------
\* Inputs
\* ---------------------------------------------------------------------
NoGraph == [loaded |-> FALSE, nodes |-> {}, edges |-> {}]

\* A two-way street through all the nodes.
LineGraph ==
  [loaded |-> TRUE, nodes |-> Nodes,
   edges |-> {<<n, n + 1, 600>> : n \in 1..(MaxNode - 1)}
             \cup {<<n + 1, n, 600>> : n \in 1..(MaxNode - 1)}]

\* Only nodes 1 and 2 are joined.
SplitGraph ==
  [loaded |-> TRUE, nodes |-> Nodes,
   edges |-> {<<1, 2, 600>>, <<2, 1, 600>>}]

\* A one-way street through all the nodes.
OneWayGraph ==
  [loaded |-> TRUE, nodes |-> Nodes,
   edges |-> {<<n, n + 1, 600>> : n \in 1..(MaxNode - 1)}]

\* Two nodes and one edge of 1000 s.
TwoNodeGraph ==
  [loaded |-> TRUE, nodes |-> {1, 2}, edges |-> {<<1, 2, 1000>>}]

\* A graph file without nodes.
EmptyGraph == [loaded |-> TRUE, nodes |-> {}, edges |-> {}]

\* Paths of no, one and two points, and one of three.
Paths ==
  {<<>>} \cup {<<p>> : p \in Pos} \cup {<<p, q>> : p \in Pos, q \in Pos}
  \cup {<<0, MaxPos, 0>>}

Requests ==
  [interventionType : InterventionTypes,
   rainfall : {0, 20, 40},
   approxLength : {None, 3, 4, 40},
   lanes : {None, MaxLanes},
   roadPoints : Paths,
   origin : {None, 0},
   destination : {None, MaxPos}]

NoRequest ==
  [interventionType |-> "road", rainfall |-> 0, approxLength |-> None,
   lanes |-> None, roadPoints |-> <<>>, origin |-> None,
   destination |-> None]

NoFeed == [http_ok |-> TRUE, times |-> <<>>, rains |-> <<>>, now |-> 0]

IdleSim == [called |-> FALSE]
IdleOd == [called |-> FALSE]
IdleAlert == [called |-> FALSE]
IdleFc == [kind |-> "none"]

Threads == 1..MaxThreads

ThreadsIdle ==
  /\ pc = [t \in Threads |-> "idle"]
  /\ treq = [t \in Threads |-> NoRequest]
  /\ tG = [t \in Threads |-> NoGraph]
  /\ tbase = [t \in Threads |-> None]
  /\ tscen = [t \in Threads |-> None]
  /\ tresp = [t \in Threads |-> [status |-> "none"]]

\* ---------------------------------------------------------------------
\* Specification of single scenario requests
\* ---------------------------------------------------------------------
InitSim ==
  /\ road_graph \in {NoGraph, LineGraph, SplitGraph}
  /\ resolver_ok \in (IF road_graph = LineGraph THEN BOOLEAN ELSE {TRUE})
  /\ flood_points \in {NoPoints, MakePoints(SimHotspots)}
  /\ graph0 = road_graph
  /\ points0 = flood_points
  /\ sim = IdleSim
  /\ od = IdleOd
  /\ alert = IdleAlert
  /\ feed = NoFeed
  /\ fc = IdleFc
  /\ ThreadsIdle

\* One request is served at a time here; the handler keeps nothing from one
\* request to the next.
Idle == ~sim.called /\ ~od.called /\ ~alert.called /\ fc.kind = "none"

Simulate(req) ==
  /\ Idle
  /\ sim' = [called |-> TRUE, req |-> req,
             resp |-> simulate(req, road_graph, flood_points, resolver_ok)]
  /\ UNCHANGED <<envVars, od, alert, feed, fc, thrVars>>

\* The response has been sent; the server waits for the next request.
Return ==
  /\ ~Idle
  /\ sim' = IdleSim
  /\ od' = IdleOd
  /\ alert' = IdleAlert
  /\ fc' = IdleFc
  /\ UNCHANGED <<envVars, feed, thrVars>>

NextSim == (\E req \in Requests : Simulate(req)) \/ Return

SpecSim == InitSim /\ [][NextSim]_vars

\* ---------------------------------------------------------------------
\* Specification of the overlay router
\* ---------------------------------------------------------------------
\* Overlays (u, v, length_km, speed): 1, 2 or 20 km at 18 or 60 km/h.
Overlays ==
  {<<>>} \cup {<<<<u, v, l, s>>>> :
                  u \in Nodes, v \in Nodes, l \in {2, 4, 40}, s \in {18, 60}}

InitRoute ==
  /\ road_graph \in {NoGraph, EmptyGraph, LineGraph, SplitGraph, OneWayGraph,
                     TwoNodeGraph}
  /\ resolver_ok \in (IF road_graph.loaded THEN BOOLEAN ELSE {TRUE})
  /\ flood_points = NoPoints
  /\ graph0 = road_graph
  /\ points0 = flood_points
  /\ sim = IdleSim
  /\ od = IdleOd
  /\ alert = IdleAlert
  /\ feed = NoFeed
  /\ fc = IdleFc
  /\ ThreadsIdle

\* compute_od_time without and with the overlay, as simulate calls it.
OdQuery(origin, dest, temp_edges) ==
  /\ Idle
  /\ od' = [called |-> TRUE, origin |-> origin, dest |-> dest,
            temp_edges |-> temp_edges,
            base |-> compute_od_time(road_graph, resolver_ok, origin, dest,
                                     <<>>),
            scen |-> compute_od_time(road_graph, resolver_ok, origin, dest,
                                     temp_edges)]
  /\ UNCHANGED <<envVars, sim, alert, feed, fc, thrVars>>

NextRoute ==
  \/ \E origin \in Pos, dest \in Pos, temp_edges \in Overlays :
        OdQuery(origin, dest, temp_edges)
  \/ Return

SpecRoute == InitRoute /\ [][NextRoute]_vars

\* ---------------------------------------------------------------------
\* Specification of the alert generator
\* ---------------------------------------------------------------------
\* Sizes of the hotspot dataset.
AlertTotals == {0, 1, 7, 20, 90}

\* Rainfall in hundredths of a millimetre, around every threshold.
AlertRainfalls ==
  {0, 500, 999, 1000, 2499, 2500, 3000, 4999, 5000, 6000, 9999, 10000, 15000}

\* No box, a box of the wrong length, and every box of the grid.
BBoxes ==
  {<<>>, <<0, 0>>}
  \cup {<<minx, miny, maxx, maxy>> :
          minx \in Pos, maxx \in Pos, miny \in 0..1, maxy \in 0..1}

InitAlert ==
  /\ road_graph = NoGraph
  /\ resolver_ok = TRUE
  /\ flood_points \in {NoPoints} \cup {MakePoints(n) : n \in AlertTotals}
  /\ graph0 = road_graph
  /\ points0 = flood_points
  /\ sim = IdleSim
  /\ od = IdleOd
  /\ alert = IdleAlert
  /\ feed = NoFeed
  /\ fc = IdleFc
  /\ ThreadsIdle

GenerateAlert(rainfall_mm, bbox) ==
  /\ Idle
  /\ alert' = [called |-> TRUE, rainfall_mm |-> rainfall_mm, bbox |-> bbox,
               resp |-> generate_alert_from_rainfall(flood_points,
                                                     rainfall_mm, bbox)]
  /\ UNCHANGED <<envVars, sim, od, feed, fc, thrVars>>

NextAlert ==
  \/ \E rainfall_mm \in AlertRainfalls, bbox \in BBoxes :
        GenerateAlert(rainfall_mm, bbox)
  \/ Return

SpecAlert == InitAlert /\ [][NextAlert]_vars

\* ---------------------------------------------------------------------
\* Specification of the forecast
\* ---------------------------------------------------------------------
\* Rainfall of one sample, in hundredths of a millimetre, or null.
FeedRains == {None, 600, 5000}

\* Time stamps in feed order; some may be unparsable.
IsOrdered(ts) ==
  \A i \in 1..Len(ts), j \in 1..Len(ts) :
     (i < j /\ ts[i] # BadTime /\ ts[j] # BadTime) => ts[i] <= ts[j]

Feeds ==
  {f \in [http_ok : {TRUE},
          times : UNION {[1..n -> (0..MaxTime) \cup {BadTime}] :
                           n \in 0..MaxFeed},
          rains : UNION {[1..n -> FeedRains] : n \in 0..MaxFeed},
          now : 0..MaxTime] : IsOrdered(f.times)}

FailedFeed == [http_ok |-> FALSE, times |-> <<>>, rains |-> <<>>, now |-> 0]

InitForecast ==
  /\ road_graph = NoGraph
  /\ resolver_ok = TRUE
  /\ \/ flood_points = MakePoints(SimHotspots) /\ feed \in Feeds
     \/ flood_points = MakePoints(SimHotspots) /\ feed = FailedFeed
     \/ flood_points = NoPoints /\ feed = NoFeed
  /\ graph0 = road_graph
  /\ points0 = flood_points
  /\ sim = IdleSim
  /\ od = IdleOd
  /\ alert = IdleAlert
  /\ fc = IdleFc
  /\ ThreadsIdle

\* One call of get_forecast_rainfall; flood_forecast makes several in a row.
GetForecastRainfall(hours) ==
  /\ fc.kind \in {"none", "rainfall"}
  /\ ~sim.called /\ ~od.called /\ ~alert.called
  /\ fc' = IF feed.http_ok
           THEN [kind |-> "rainfall", hours |-> hours,
                 total |-> get_forecast_rainfall(feed, hours)]
           ELSE [kind |-> "raised"]
  /\ UNCHANGED <<envVars, sim, od, alert, feed, thrVars>>

FloodForecast ==
  /\ Idle
  /\ fc' = [kind |-> "forecast", resp |-> flood_forecast(flood_points, feed)]
  /\ UNCHANGED <<envVars, sim, od, alert, feed, thrVars>>

NextForecast ==
  \/ \E hours \in 0..MaxHours : GetForecastRainfall(hours)
  \/ FloodForecast
  \/ Return

SpecForecast == InitForecast /\ [][NextForecast]_vars

\* ---------------------------------------------------------------------
\* Specification of concurrent requests
\* ---------------------------------------------------------------------
\* The endpoints are plain `def` handlers, which the server runs on a pool
\* of threads; every thread below serves requests one after the other and
\* the steps of different threads interleave.
ConcRequests ==
  {r \in Requests :
     /\ r.interventionType = "road" /\ r.rainfall = 40 /\ r.lanes = None
     /\ r.approxLength = 4 /\ r.origin = 0 /\ r.destination = MaxPos
     /\ r.roadPoints \in {<<>>, <<0, 1>>, <<0, MaxPos>>}}

ConcFeed == [http_ok |-> TRUE, times |-> <<0, 1>>, rains |-> <<600, 5000>>,
             now |-> 0]

InitConc ==
  /\ road_graph \in {LineGraph, SplitGraph}
  /\ resolver_ok = TRUE
  /\ flood_points = MakePoints(SimHotspots)
  /\ graph0 = road_graph
  /\ points0 = flood_points
  /\ sim = IdleSim
  /\ od = IdleOd
  /\ alert = IdleAlert
  /\ feed = ConcFeed
  /\ fc = IdleFc
  /\ ThreadsIdle

\* simulate, lines 324-332: the request arrives.
Begin(t, req) ==
  /\ pc[t] = "idle"
  /\ treq' = [treq EXCEPT ![t] = req]
  /\ pc' = [pc EXCEPT ![t] = IF HasOD(req) THEN "base_copy" ELSE "finish"]
  /\ UNCHANGED <<envVars, sim, od, alert, feed, fc, tG, tbase, tscen, tresp>>

\* compute_od_time for the baseline, lines 170-172.
BaseCopy(t) ==
  /\ pc[t] = "base_copy"
  /\ IF road_graph.loaded
     THEN /\ tG' = [tG EXCEPT ![t] = GraphCopy(road_graph)]
          /\ pc' = [pc EXCEPT ![t] = "base_route"]
          /\ UNCHANGED tbase
     ELSE /\ tbase' = [tbase EXCEPT ![t] = None]
          /\ pc' = [pc EXCEPT ![t] = "scen_copy"]
          /\ UNCHANGED tG
  /\ UNCHANGED <<envVars, sim, od, alert, feed, fc, treq, tscen, tresp>>

\* compute_od_time for the baseline, lines 178-187.
BaseRoute(t) ==
  /\ pc[t] = "base_route"
  /\ tbase' = [tbase EXCEPT ![t] =
                 RouteOn(tG[t], road_graph, resolver_ok, treq[t].origin,
                         treq[t].destination)]
  /\ pc' = [pc EXCEPT ![t] = "scen_copy"]
  /\ UNCHANGED <<envVars, sim, od, alert, feed, fc, treq, tG, tscen, tresp>>

\* simulate, lines 334-339, and compute_od_time, lines 170-172.
ScenCopy(t) ==
  /\ pc[t] = "scen_copy"
  /\ IF OverlayOf(treq[t], road_graph, resolver_ok) # <<>>
     THEN /\ tG' = [tG EXCEPT ![t] = GraphCopy(road_graph)]
          /\ pc' = [pc EXCEPT ![t] = "scen_add"]
          /\ UNCHANGED tscen
     ELSE /\ tscen' = [tscen EXCEPT ![t] = tbase[t]]
          /\ pc' = [pc EXCEPT ![t] = "finish"]
          /\ UNCHANGED tG
  /\ UNCHANGED <<envVars, sim, od, alert, feed, fc, treq, tbase, tresp>>

\* A version of ScenAdd that adds the overlay to the shared network.
ScenAddShared(t) ==
  /\ pc[t] = "scen_add"
  /\ road_graph' = AddOverlay(road_graph,
                              OverlayOf(treq[t], road_graph, resolver_ok))
  /\ tG' = [tG EXCEPT ![t] = road_graph']
  /\ pc' = [pc EXCEPT ![t] = "scen_route"]
  /\ UNCHANGED <<flood_points, resolver_ok, graph0, points0, sim, od, alert,
                 feed, fc, treq, tbase, tscen, tresp>>

\* compute_od_time, lines 173-177: the overlay goes into the private copy.
ScenAdd(t) ==
  /\ pc[t] = "scen_add"
  /\ tG' = [tG EXCEPT ![t] =
              AddOverlay(tG[t], OverlayOf(treq[t], road_graph, resolver_ok))]
  /\ pc' = [pc EXCEPT ![t] = "scen_route"]
  /\ UNCHANGED <<envVars, sim, od, alert, feed, fc, treq, tbase, tscen, tresp>>

\* compute_od_time for the scenario, lines 178-187.
ScenRoute(t) ==
  /\ pc[t] = "scen_route"
  /\ tscen' = [tscen EXCEPT ![t] =
                 RouteOn(tG[t], road_graph, resolver_ok, treq[t].origin,
                         treq[t].destination)]
  /\ pc' = [pc EXCEPT ![t] = "finish"]
  /\ UNCHANGED <<envVars, sim, od, alert, feed, fc, treq, tG, tbase, tresp>>

\* simulate, lines 340-388.
Finish(t) ==
  /\ pc[t] = "finish"
  /\ tresp' = [tresp EXCEPT ![t] =
                 SimFinish(treq[t], flood_points, tbase[t], tscen[t])]
  /\ pc' = [pc EXCEPT ![t] = "done"]
  /\ UNCHANGED <<envVars, sim, od, alert, feed, fc, treq, tG, tbase, tscen>>

\* flood_forecast served by thread t.
ThreadForecast(t) ==
  /\ pc[t] = "idle"
  /\ tresp' = [tresp EXCEPT ![t] = flood_forecast(flood_points, feed)]
  /\ pc' = [pc EXCEPT ![t] = "forecast_done"]
  /\ UNCHANGED <<envVars, sim, od, alert, feed, fc, treq, tG, tbase, tscen>>

\* The response is sent and the thread is free again.
ThreadReturn(t) ==
  /\ pc[t] \in {"done", "forecast_done"}
  /\ pc' = [pc EXCEPT ![t] = "idle"]
  /\ treq' = [treq EXCEPT ![t] = NoRequest]
  /\ tG' = [tG EXCEPT ![t] = NoGraph]
  /\ tbase' = [tbase EXCEPT ![t] = None]
  /\ tscen' = [tscen EXCEPT ![t] = None]
  /\ tresp' = [tresp EXCEPT ![t] = [status |-> "none"]]
  /\ UNCHANGED <<envVars, sim, od, alert, feed, fc>>

NextConc ==
  \E t \in Threads :
     \/ \E req \in ConcRequests : Begin(t, req)
     \/ BaseCopy(t)
     \/ BaseRoute(t)
     \/ ScenCopy(t)
     \/ ScenAdd(t)
     \/ ScenRoute(t)
     \/ Finish(t)
     \/ ThreadForecast(t)
     \/ ThreadReturn(t)

SpecConc == InitConc /\ [][NextConc]_vars

\* ---------------------------------------------------------------------
\* Properties of the scenario impact calculator
\* ---------------------------------------------------------------------
\* The nodes reachable from the set S along the directed edges E.
RECURSIVE ReachFrom(_, _)
ReachFrom(S, E) ==
  LET T == S \cup {e[2] : e \in {d \in E : d[1] \in S}}
  IN IF T = S THEN S ELSE ReachFrom(T, E)

\* The endpoints of the overlay of the request, as unweighted edges.
OverlayPairs(req) ==
  IF req.roadPoints # <<>> /\ road_graph.loaded /\ road_graph.nodes # {}
     /\ resolver_ok
  THEN LET a == nearest_node(road_graph, TRUE, req.roadPoints[1])
           b == nearest_node(road_graph, TRUE,
                             req.roadPoints[Len(req.roadPoints)])
       IN {<<a, b>>, <<b, a>>}
  ELSE {}

\* No network, node resolution failure, or no route, for the baseline call
\* (extra = {}) or the scenario call (extra = the overlay).
RoutingFails(req, extra) ==
  \/ ~road_graph.loaded
  \/ ~resolver_ok
  \/ road_graph.nodes = {}
  \/ nearest_node(road_graph, TRUE, req.destination)
       \notin ReachFrom({nearest_node(road_graph, TRUE, req.origin)},
                        {<<e[1], e[2]>> : e \in road_graph.edges} \cup extra)

AnyRoutingFails(req) ==
  RoutingFails(req, {}) \/ RoutingFails(req, OverlayPairs(req))

\* min(20, length * lanes * 0.6) minutes, times 10 * LenScale * MinScale.
HeuristicCap(req) ==
  Min2(20 * 10 * LenScale * MinScale,
       LengthOf(req) * LanesOf(req) * 6 * MinScale)

\* C1: simulate returns a ScenarioResult for every valid request, whatever
\* the path length and whichever of the network and the dataset is present;
\* no sub-failure surfaces as a request error.
C1_SimulateNeverFails == sim.called => sim.resp.status = "ok"

\* C2: when origin and destination are given and a routing call fails, the
\* traffic delta is -min(20, length * lanes * 0.6) minutes, or the absolute
\* value of that halved for a restriction, and baselineMinutes and
\* scenarioMinutes are unset.
C2_HeuristicTraffic ==
  (sim.called /\ HasOD(sim.req) /\ AnyRoutingFails(sim.req)) =>
     LET tr == sim.resp.traffic IN
     /\ tr.baselineMinutes = None
     /\ tr.scenarioMinutes = None
     /\ IF sim.req.interventionType = "restriction"
        THEN /\ 2 * tr.minutesChange * 10 * LenScale = HeuristicCap(sim.req)
             /\ tr.minutesChange >= 0
        ELSE tr.minutesChange * 10 * LenScale = 0 - HeuristicCap(sim.req)

\* A restriction whose heuristic is capped at 20 minutes and halved.
C2_Witness ==
  /\ sim.called /\ HasOD(sim.req) /\ AnyRoutingFails(sim.req)
  /\ sim.req.interventionType = "restriction"
  /\ sim.resp.traffic.minutesChange = 10 * MinScale

FallbackBranch(req) == ~flood_points.loaded \/ req.roadPoints = <<>>

FallbackK(type) ==
  IF type = "road" THEN 10
  ELSE IF type = "drain" THEN 15
  ELSE IF type = "green" THEN 8
  ELSE 12

\* a is an integer nearest to n / d.
NearestInt(a, n, d) == 2 * Abs(a * d - n) <= d

\* C3: without the dataset or without a path the flood delta is
\* round(length * rf * k), rf = max(0.01, rainfall / 100), k = 10 (road,
\* positive), 15 (drain), 8 (green), 12 (restriction), the last three
\* negative; drain, rainfall 40, 2 km gives -12, 988 cells and 494000
\* people; road, rainfall 40, 2 km gives 8 and 1008 cells.
C3_FallbackFlood ==
  (sim.called /\ FallbackBranch(sim.req)) =>
     LET req == sim.req
         d   == sim.resp.delta_cells
     IN /\ sim.resp.status = "ok"
        /\ NearestInt(Abs(d),
                      LengthOf(req) * Max2(1, req.rainfall)
                         * FallbackK(req.interventionType),
                      LenScale * 100)
        /\ IF req.interventionType = "road" THEN d >= 0 ELSE d <= 0
        /\ (req.rainfall = 40 /\ LengthOf(req) = 2 * LenScale) =>
              /\ req.interventionType = "drain" =>
                    /\ d = 0 - 12
                    /\ sim.resp.flood.scenarioHighRiskCells = 988
                    /\ sim.resp.flood.scenarioPop = 494000
              /\ req.interventionType = "road" =>
                    /\ d = 8
                    /\ sim.resp.flood.scenarioHighRiskCells = 1008

\* The drain example of the fallback branch.
C3_Witness ==
  /\ sim.called /\ FallbackBranch(sim.req)
  /\ sim.req.interventionType = "drain" /\ sim.req.rainfall = 40
  /\ LengthOf(sim.req) = 2 * LenScale
  /\ sim.resp.delta_cells = 0 - 12

\* C9: every ScenarioResult has 1000 baseline cells and 500000 baseline
\* population, scenarioRiskCells = max(0, 1000 + delta), never negative, and
\* scenarioPopulation = 500 * scenarioRiskCells.
C9_FloodResult ==
  (sim.called /\ sim.resp.status = "ok") =>
     LET f == sim.resp.flood IN
     /\ f.baselineHighRiskCells = 1000
     /\ f.baselinePop = 500000
     /\ f.scenarioHighRiskCells = Max2(0, 1000 + sim.resp.delta_cells)
     /\ f.scenarioHighRiskCells >= 0
     /\ f.scenarioPop = 500 * f.scenarioHighRiskCells

\* C10: with the dataset and a non-empty path the flood delta is +count for
\* a road, -2 * count for a drain, -count for green, -2 * count for a
\* restriction, count being the hotspots within the buffer of the path; a
\* road never lowers and the others never raise scenarioRiskCells.
C10_SpatialFlood ==
  (sim.called /\ flood_points.loaded /\ sim.req.roadPoints # <<>>) =>
     LET count == BufferCount(flood_points.rows, sim.req.roadPoints)
         type  == sim.req.interventionType
     IN /\ sim.resp.status = "ok"
        /\ sim.resp.delta_cells =
             (IF type = "road" THEN count
              ELSE IF type = "green" THEN 0 - count
              ELSE 0 - 2 * count)
        /\ IF type = "road"
           THEN sim.resp.flood.scenarioHighRiskCells >= 1000
           ELSE sim.resp.flood.scenarioHighRiskCells <= 1000

\* ---------------------------------------------------------------------
\* Properties of the overlay router
\* ---------------------------------------------------------------------
\* (lengthKm / speedKmh) * 3600 seconds
ClaimOverlayTime(o) == (o[3] * 60 * 60) \div (o[4] * LenScale)

\* The base edges plus both directions of every overlay.
ClaimEdges(rg, temp_edges) ==
  rg.edges \cup
  UNION {{<<temp_edges[i][1], temp_edges[i][2],
            ClaimOverlayTime(temp_edges[i])>>,
          <<temp_edges[i][2], temp_edges[i][1],
            ClaimOverlayTime(temp_edges[i])>>} : i \in 1..Len(temp_edges)}

ClaimNodes(rg, temp_edges) ==
  rg.nodes \cup UNION {{temp_edges[i][1], temp_edges[i][2]} :
                          i \in 1..Len(temp_edges)}

\* The simple paths from u to v along the edges E, as node sequences.
SimplePaths(N, E, u, v) ==
  {p \in UNION {[1..k -> N] : k \in 1..Cardinality(N)} :
     /\ p[1] = u /\ p[Len(p)] = v
     /\ \A i \in 1..Len(p), j \in 1..Len(p) : i # j => p[i] # p[j]
     /\ \A i \in 1..(Len(p) - 1) :
           \E e \in E : e[1] = p[i] /\ e[2] = p[i + 1]}

RECURSIVE PathWeight(_, _, _)
PathWeight(p, E, i) ==
  IF i >= Len(p) THEN 0
  ELSE SetMin({e[3] : e \in {d \in E : d[1] = p[i] /\ d[2] = p[i + 1]}})
       + PathWeight(p, E, i + 1)

\* C6: every overlay is a pair of opposite edges of (lengthKm / speedKmh) *
\* 3600 seconds and the result is the least travel time over the base and
\* the overlay edges; it never exceeds the time without the overlay, it is
\* at most the overlay's time when the overlay joins the resolved origin
\* and destination, and on the two-node network with one 1000 s edge a
\* 200 s overlay gives at most 200 s.
C6_OverlayRouting ==
  (od.called /\ road_graph.loaded /\ resolver_ok /\ road_graph.nodes # {}) =>
     LET u == nearest_node(road_graph, TRUE, od.origin)
         v == nearest_node(road_graph, TRUE, od.dest)
         E == ClaimEdges(road_graph, od.temp_edges)
         P == SimplePaths(ClaimNodes(road_graph, od.temp_edges), E, u, v)
         W == {PathWeight(p, E, 1) : p \in P}
     IN /\ IF W = {} THEN od.scen = None ELSE od.scen = SetMin(W)
        /\ od.base # None => (od.scen # None /\ od.scen <= od.base)
        /\ \A i \in 1..Len(od.temp_edges) :
              ({od.temp_edges[i][1], od.temp_edges[i][2]} = {u, v}) =>
                 /\ od.scen # None
                 /\ od.scen <= ClaimOverlayTime(od.temp_edges[i])
        /\ (/\ road_graph = TwoNodeGraph /\ u = 1 /\ v = 2
            /\ od.temp_edges = <<<<1, 2, LenScale, 18>>>>) =>
              (od.base = 1000 /\ od.scen # None /\ od.scen <= 200)

\* The two-node example: 1000 s without, 200 s with the overlay.
C6_Witness ==
  /\ od.called /\ road_graph = TwoNodeGraph /\ resolver_ok
  /\ od.origin = 0 /\ od.dest = 1
  /\ od.temp_edges = <<<<1, 2, LenScale, 18>>>>
  /\ od.base = 1000 /\ od.scen = 200

\* ---------------------------------------------------------------------
\* Properties of the alert generator
\* ---------------------------------------------------------------------
\* The hotspots of the box, in collection order.
ClaimRestrict(rows, bbox) ==
  IF Len(bbox) # 4 THEN rows
  ELSE LET keep == {i \in 1..Len(rows) :
                      /\ rows[i].pos \in bbox[1]..bbox[3]
                      /\ rows[i].off \in bbox[2]..bbox[4]}
       IN [k \in 1..Cardinality(keep) |->
             rows[CHOOSE i \in keep :
                     Cardinality({j \in keep : j <= i}) = k]]

\* The activation fraction in thousandths.
ClaimFraction(r) ==
  IF r < 10 * RainScale THEN 50
  ELSE IF r < 25 * RainScale THEN 150
  ELSE IF r < 50 * RainScale THEN 400
  ELSE IF r < 100 * RainScale THEN 700
  ELSE 1000

\* C4: for a non-empty restricted collection of size total, affectedCount
\* is max(1, floor(total * fraction)) and the affected hotspots are the
\* first affectedCount of the collection, in order (20 hotspots: 1 at 5 mm,
\* 8 at 30 mm).
C4_AffectedPrefix ==
  (alert.called /\ flood_points.loaded) =>
     LET pts   == ClaimRestrict(flood_points.rows, alert.bbox)
         total == Len(pts)
         n     == Max2(1, (total * ClaimFraction(alert.rainfall_mm))
                             \div 1000)
     IN total > 0 =>
          /\ alert.resp.affected_count = n
          /\ Len(alert.resp.affected_points) = n
          /\ \A i \in 1..n :
                alert.resp.affected_points[i].properties.id = pts[i].id

ClaimSeverity(r) ==
  CASE r < 10 * RainScale -> "low"
    [] r >= 10 * RainScale /\ r < 25 * RainScale -> "moderate"
    [] r >= 25 * RainScale /\ r < 50 * RainScale -> "high"
    [] r >= 50 * RainScale -> "critical"

\* C5: the severity is low below 10 mm, moderate from 10 to below 25, high
\* from 25 to below 50 and critical from 50 on, and every alert for a
\* non-empty hotspot set carries it with the message and the recommended
\* actions of its tier.
C5_Severity ==
  (alert.called /\ flood_points.loaded
     /\ Len(ClaimRestrict(flood_points.rows, alert.bbox)) > 0) =>
     LET s == ClaimSeverity(alert.rainfall_mm) IN
     /\ alert.resp.severity = s
     /\ alert.resp.message =
          (CASE s = "low" -> "Low flood risk."
             [] s = "moderate" ->
                  "Moderate risk - localized hotspots possible."
             [] s = "high" ->
                  "High risk - many hotspots likely to be affected."
             [] s = "critical" ->
                  "Critical risk - widespread inundation possible.")
     /\ alert.resp.recommended_actions =
          (CASE s = "low" -> <<"Monitor rainfall trends">>
             [] s = "moderate" -> <<"Prepare pumps and alert local teams">>
             [] s = "high" -> <<"Issue city-wide advisories",
                                "Mobilize maintenance teams">>
             [] s = "critical" -> <<"Activate emergency operations",
                                    "Prepare evacuations">>)

\* An alert at exactly 25 mm, which is high.
C5_Witness ==
  /\ alert.called /\ flood_points.loaded
  /\ Len(ClaimRestrict(flood_points.rows, alert.bbox)) > 0
  /\ alert.rainfall_mm = 25 * RainScale
  /\ alert.resp.severity = "high"

\* ---------------------------------------------------------------------
\* Properties of the forecast
\* ---------------------------------------------------------------------
\* The rainfall of the samples at or after now, in feed order.
RECURSIVE ClaimEligible(_, _)
ClaimEligible(f, i) ==
  IF i > Len(f.times) \/ i > Len(f.rains) THEN <<>>
  ELSE (IF f.times[i] # BadTime /\ f.times[i] >= f.now
        THEN <<IF f.rains[i] = None THEN 0 ELSE f.rains[i]>>
        ELSE <<>>) \o ClaimEligible(f, i + 1)

RECURSIVE ClaimSum(_, _)
ClaimSum(s, n) ==
  IF n = 0 \/ s = <<>> THEN 0 ELSE Head(s) + ClaimSum(Tail(s), n - 1)

C8_Sum ==
  /\ fc.kind = "rainfall" =>
       /\ fc.total = ClaimSum(ClaimEligible(feed, 1), fc.hours)
       /\ (feed.times = <<>> \/ feed.rains = <<>>) => fc.total = 0
  /\ (fc.kind = "forecast" /\ fc.resp.status = 200) =>
       /\ fc.resp.out.day1.rainfall_mm <= fc.resp.out.day2.rainfall_mm
       /\ fc.resp.out.day2.rainfall_mm <= fc.resp.out.day3.rainfall_mm

C8_Monotone ==
  (fc.kind = "rainfall" /\ fc'.kind = "rainfall" /\ fc.hours <= fc'.hours)
     => fc.total <= fc'.total

C7_SharedStateImmutable ==
  /\ road_graph = graph0
  /\ flood_points = points0
  /\ \A t \in Threads :
        /\ pc[t] = "done" =>
              tresp[t] = simulate(treq[t], graph0, points0, resolver_ok)
        /\ pc[t] = "forecast_done" =>
              tresp[t] = flood_forecast(points0, feed)

\* One request has been answered while another, with a different overlay,
\* holds its private copy with the overlay added.
C7_Witness ==
  \E t \in Threads, s \in Threads :
     /\ t # s
     /\ pc[t] = "done" /\ pc[s] = "scen_route"
     /\ treq[t].roadPoints # treq[s].roadPoints
     /\ treq[t].roadPoints # <<>>
     /\ tG[s] # road_graph

====
